---- MODULE Spec2Model ----
(***************************************************************************)
(* Model of delete-episode (src/main.go): the classification of            *)
(* Transmission torrents into collection/episode duplicate groups          *)
(* (findCollectionsAndEpisodes, checkActualEpisodeOverlap) and the pause   *)
(* step that follows it (main, pauseEpisodes).                             *)
(*                                                                         *)
(* Go strings are sequences of one-character strings; "" is << >>.         *)
(* A nil pointer (Name, SizeWhenDone, error) is Nil; a non-nil pointer to  *)
(* v is << v >>.                                                           *)
(***************************************************************************)
EXTENDS Integers, Sequences, FiniteSets, TLC

VARIABLES
    torrents,           \* main: filteredTorrents handed to findCollectionsAndEpisodes
    pc,                 \* position of the run
    nameGroups,         \* findCollectionsAndEpisodes: map name -> []Torrent
    pending,            \* names the range over nameGroups has not visited yet
    name,               \* the name of the group being processed
    sortedGroup,        \* the group being processed, after the sort
    collectionFiles,    \* manifest of the candidate collection
    i,                  \* index (1-based) of the next candidate episode in sortedGroup
    episodes,           \* local episodes of the group being processed
    sameSizeEpisodes,   \* local sameSizeEpisodes of the group being processed
    hasFileOverlaps,    \* local hasFileOverlaps of the group being processed
    err,                \* outcome of the last episode manifest fetch: Nil or <<"error">>
    episodeFiles,       \* manifest of the last candidate episode fetched
    isActualEpisode,    \* first result of the last checkActualEpisodeOverlap call
    overlappingFiles,   \* second result of the last checkActualEpisodeOverlap call
    result,             \* map name -> DuplicateGroup (groups to pause)
    onlySameSizeResult, \* map name -> DuplicateGroup (only same-size episodes)
    fetchLog,           \* ids whose manifest findCollectionsAndEpisodes requested, in order
    fetchErrors,        \* ids whose manifest request returned an error
    replies,            \* id -> manifest returned for the group being processed
    classOf,            \* branch taken for each visited group: Singleton/AllEqualSize/SizeVaries
    filed,              \* id -> "duplicate"/"ambiguous": list each true-overlap episode was appended to
    prompted,           \* main showed the pause prompt
    answer,             \* main: the operator's answer to the pause prompt
    pausePending,       \* pauseEpisodes: group names the range has not visited yet
    torrentIDs,         \* pauseEpisodes: ids of the group being paused
    retry,              \* pauseEpisodes: index of the next id to retry individually
    successCount,       \* pauseEpisodes
    failedCount,        \* pauseEpisodes
    stopRequests,       \* TorrentStopIDs calls that reached the daemon, in order
    stopOutcomes        \* for each stop request, whether it returned err == nil

vars == << torrents, pc, nameGroups, pending, name, sortedGroup, collectionFiles, i,
           episodes, sameSizeEpisodes, hasFileOverlaps, err, episodeFiles,
           isActualEpisode, overlappingFiles, result, onlySameSizeResult, fetchLog,
           fetchErrors, replies, classOf, filed, prompted, answer, pausePending, torrentIDs, retry,
           successCount, failedCount, stopRequests, stopOutcomes >>

----------------------------------------------------------------------------
(* Bounds and input alphabets *)

\* longest torrent list the daemon returns
MaxTorrents == 3
\* longest file manifest handed to checkActualEpisodeOverlap
MaxFiles == 2

Nil == << >>

EmptyMap == [n \in {} |-> Nil]

\* torrent names seen
Names == { "A", "B" }
\* torrent sizes in bytes
Sizes == { 0, 1024, 2048 }

\* file paths of the manifests: S1E1, S1E12, s1e1/a, a, ab
FileNames ==
    { << "S", "1", "E", "1" >>,
      << "S", "1", "E", "1", "2" >>,
      << "s", "1", "e", "1", "/", "a" >>,
      << "a" >>,
      << "a", "b" >> }

\* a manifest: a list of file paths (only TorrentFile.Name is read)
Manifests == UNION { [1..n -> FileNames] : n \in 0..MaxFiles }

\* the manifests the daemon answers with during a run
DaemonManifests ==
    { << << "S", "1", "E", "1" >>, << "a" >> >>,
      << << "S", "1", "E", "1" >> >>,
      << << "S", "1", "E", "1", "2" >> >> }

\* what the operator may type at the pause prompt
Answers == { << "y" >>, << "Y" >>, << "n" >>, << >>, << "y", "e", "s" >> }

----------------------------------------------------------------------------
(* strings *)

Digits == { "0", "1", "2", "3", "4", "5", "6", "7", "8", "9" }

\* strings.Contains(s, sub)
Contains(s, sub) ==
    \E p \in 0..(Len(s) - Len(sub)) : SubSeq(s, p + 1, p + Len(sub)) = sub

\* getFileName: the part after the last "/"
getFileName(path) ==
    LET slashes == { p \in 1..Len(path) : path[p] = "/" }
        last == IF slashes = {} THEN 0
                ELSE CHOOSE p \in slashes : \A q \in slashes : q <= p
    IN SubSeq(path, last + 1, Len(path))

\* unicode lower-casing of the letters the prompt answers use
LowerChar(c) ==
    CASE c = "Y" -> "y"
      [] c = "E" -> "e"
      [] c = "S" -> "s"
      [] c = "N" -> "n"
      [] OTHER -> c

\* strings.ToLower
ToLower(s) == [p \in 1..Len(s) |-> LowerChar(s[p])]

\* index after the longest run of digits of s starting at p (p itself if none)
RECURSIVE DigitsEnd(_, _)
DigitsEnd(s, p) ==
    IF p <= Len(s) /\ s[p] \in Digits THEN DigitsEnd(s, p + 1) ELSE p

\* episodeRegex [Ss](\d+)[Ee](\d+) anchored at p: index after the match, 0 if none
MatchAt(s, p) ==
    IF s[p] \notin { "S", "s" } THEN 0
    ELSE LET q == DigitsEnd(s, p + 1)
         IN IF q = p + 1 \/ q > Len(s) THEN 0
            ELSE IF s[q] \notin { "E", "e" } THEN 0
            ELSE LET r == DigitsEnd(s, q + 1)
                 IN IF r = q + 1 THEN 0 ELSE r

\* extractEpisodeMarker: the leftmost match of episodeRegex, "" if none
extractEpisodeMarker(filename) ==
    LET starts == { p \in 1..Len(filename) : MatchAt(filename, p) # 0 }
    IN IF starts = {} THEN << >>
       ELSE LET p == CHOOSE x \in starts : \A y \in starts : x <= y
            IN SubSeq(filename, p, MatchAt(filename, p) - 1)

----------------------------------------------------------------------------
(* checkActualEpisodeOverlap *)

\* the marker set built from a manifest (collectionEpisodes / episodeEpisodes)
Markers(files) ==
    { extractEpisodeMarker(files[k]) : k \in 1..Len(files) } \ { << >> }

\* the marker-conflict check left out
MarkerConflictNever(cFiles, eFiles) == FALSE

\* both sides carry markers and no marker is shared
MarkerConflict(cFiles, eFiles) ==
    /\ Markers(eFiles) # {}
    /\ Markers(cFiles) # {}
    /\ Markers(eFiles) \cap Markers(cFiles) = {}

\* the comparison of the marker-conflict branch
ConflictMatch(episodeFile, collectionFile) ==
    \/ Contains(getFileName(episodeFile), getFileName(collectionFile))
    \/ Contains(getFileName(collectionFile), getFileName(episodeFile))

\* the regular comparison widened to containment in either direction
DefaultMatchEither(episodeFile, collectionFile) ==
    \/ getFileName(episodeFile) = getFileName(collectionFile)
    \/ Contains(getFileName(collectionFile), getFileName(episodeFile))
    \/ Contains(getFileName(episodeFile), getFileName(collectionFile))

\* the comparison of the regular branch
DefaultMatch(episodeFile, collectionFile) ==
    \/ getFileName(episodeFile) = getFileName(collectionFile)
    \/ Contains(getFileName(collectionFile), getFileName(episodeFile))

\* matchCount of the marker-conflict branch
ConflictMatchCount(cFiles, eFiles) ==
    Cardinality({ k \in 1..Len(eFiles) :
                    \E j \in 1..Len(cFiles) : ConflictMatch(eFiles[k], cFiles[j]) })

\* matchCount of the regular branch
DefaultMatchCount(cFiles, eFiles) ==
    Cardinality({ k \in 1..Len(eFiles) :
                    \E j \in 1..Len(cFiles) : DefaultMatch(eFiles[k], cFiles[j]) })

\* the threshold rounded up instead of down
EnoughMatchesCeil(matchCount, fileCount) == matchCount >= (fileCount + 1) \div 2

\* the final decision
EnoughMatches(matchCount, fileCount) == matchCount >= fileCount \div 2

\* << isActualEpisode, overlappingFiles >>
checkActualEpisodeOverlap(cFiles, eFiles) ==
    IF Len(cFiles) < Len(eFiles) THEN << FALSE, 0 >>
    ELSE IF MarkerConflict(cFiles, eFiles)
         THEN << FALSE, ConflictMatchCount(cFiles, eFiles) >>
         ELSE << EnoughMatches(DefaultMatchCount(cFiles, eFiles), Len(eFiles)),
                 DefaultMatchCount(cFiles, eFiles) >>

----------------------------------------------------------------------------
(* torrents *)

\* size tolerance in bytes
Tolerance == 1024

Torrent(id, nm, size) == [ID |-> id, Name |-> nm, SizeWhenDone |-> size]

\* name and size of a torrent: either may be nil; a torrent without a name
\* is dropped by the grouping whatever its size, so one size stands for them
TorrentKinds ==
    ({ << x >> : x \in Names } \X ({ Nil } \cup { << x >> : x \in Sizes }))
        \cup { << Nil, << 2048 >> >> }

\* the lists the daemon may return: ids are unique
TorrentLists ==
    UNION { { [k \in 1..n |-> Torrent(k, f[k][1], f[k][2])] :
                f \in [1..n -> TorrentKinds] } :
            n \in 0..MaxTorrents }

\* var size float64; if t.SizeWhenDone != nil { size = t.SizeWhenDone.Byte() }
Byte(t) == IF t.SizeWhenDone # Nil THEN t.SizeWhenDone[1] ELSE 0

abs(x) == IF x < 0 THEN -x ELSE x

\* the size test with the tolerance excluded
DiffersInSizeStrict(a, b) == abs(a - b) >= Tolerance

\* the size test of the all-same-size scan
DiffersInSize(a, b) == abs(a - b) > Tolerance

\* the size test with the tolerance excluded
SameSizeAsCollectionStrict(episodeSize, collectionSize) ==
    abs(episodeSize - collectionSize) < Tolerance

\* the size test that files a true-overlap episode as same-size
SameSizeAsCollection(episodeSize, collectionSize) ==
    abs(episodeSize - collectionSize) <= Tolerance

\* the name grouping: every named torrent appended to the list of its name
GroupByName(ts) ==
    [n \in { ts[k].Name[1] : k \in { x \in 1..Len(ts) : ts[x].Name # Nil } } |->
        SelectSeq(ts, LAMBDA t : t.Name = << n >>)]

\* the scan that compares every member with the first one
allSameSizes(group) ==
    ~ \E k \in 2..Len(group) :
        /\ group[k].SizeWhenDone # Nil
        /\ DiffersInSize(Byte(group[k]), Byte(group[1]))

Swap(s, a, b) == [s EXCEPT ![a] = s[b], ![b] = s[a]]

\* the exchange sort run in ascending order
RECURSIVE SortAscending(_, _, _)
SortAscending(s, a, b) ==
    IF a > Len(s) THEN s
    ELSE IF b > Len(s) THEN SortAscending(s, a + 1, a + 2)
    ELSE IF /\ s[a].SizeWhenDone # Nil
            /\ s[b].SizeWhenDone # Nil
            /\ Byte(s[a]) > Byte(s[b])
         THEN SortAscending(Swap(s, a, b), a, b + 1)
         ELSE SortAscending(s, a, b + 1)

\* the exchange sort: for i { for j > i { if size[i] < size[j] swap } }
RECURSIVE SortLoop(_, _, _)
SortLoop(s, a, b) ==
    IF a > Len(s) THEN s
    ELSE IF b > Len(s) THEN SortLoop(s, a + 1, a + 2)
    ELSE IF /\ s[a].SizeWhenDone # Nil
            /\ s[b].SizeWhenDone # Nil
            /\ Byte(s[a]) < Byte(s[b])
         THEN SortLoop(Swap(s, a, b), a, b + 1)
         ELSE SortLoop(s, a, b + 1)

\* sortedGroup: a copy of the group, sorted by size descending
SortGroup(group) == SortLoop(group, 1, 2)

\* the answers of getTorrentFiles: an error, or the manifest
FetchReplies ==
    { [err |-> Nil, files |-> m] : m \in DaemonManifests }
        \cup { [err |-> << "error" >>, files |-> << >>] }

DuplicateGroup(c, eps, has) ==
    [Collection |-> c, Episodes |-> eps, HasFileOverlaps |-> has]

\* the resolver with the same-size branch tested first
GroupVerdictSameSizeFirst(eps, same, has) ==
    IF has /\ Len(same) > 0 THEN "SameSizeOnly"
    ELSE IF has /\ Len(eps) > 0 THEN "Actionable"
    ELSE "NoOverlap"

\* the map a resolved group goes to
GroupVerdict(eps, same, has) ==
    IF has /\ Len(eps) > 0 THEN "Actionable"
    ELSE IF has /\ Len(same) > 0 THEN "SameSizeOnly"
    ELSE "NoOverlap"

\* the prompt test without the lower-casing
ConfirmedExact(a) == a = << "y" >>

\* strings.ToLower(answer) == "y"
Confirmed(a) == ToLower(a) = << "y" >>

\* the ids collected with the collection's id added
CollectIDsWithCollection(group) ==
    << group.Collection.ID >> \o [k \in 1..Len(group.Episodes) |-> group.Episodes[k].ID]

\* torrentIDs of a group: the ids of its Episodes
CollectIDs(group) == [k \in 1..Len(group.Episodes) |-> group.Episodes[k].ID]

----------------------------------------------------------------------------
(* the run *)

Locals ==
    /\ name = ""
    /\ sortedGroup = << >>
    /\ collectionFiles = << >>
    /\ i = 0
    /\ episodes = << >>
    /\ sameSizeEpisodes = << >>
    /\ hasFileOverlaps = FALSE
    /\ replies = EmptyMap
    /\ err = Nil
    /\ episodeFiles = << >>
    /\ isActualEpisode = FALSE
    /\ overlappingFiles = 0

Globals ==
    /\ nameGroups = EmptyMap
    /\ pending = {}
    /\ result = EmptyMap
    /\ onlySameSizeResult = EmptyMap
    /\ fetchLog = << >>
    /\ fetchErrors = {}
    /\ classOf = EmptyMap
    /\ filed = EmptyMap
    /\ prompted = FALSE
    /\ answer = << >>
    /\ pausePending = {}
    /\ torrentIDs = << >>
    /\ retry = 0
    /\ successCount = 0
    /\ failedCount = 0
    /\ stopRequests = << >>
    /\ stopOutcomes = << >>

Init ==
    /\ torrents \in TorrentLists
    /\ pc = "find"
    /\ Locals
    /\ Globals

\* the locals of a loop pass go out of scope
ResetLocals ==
    /\ name' = ""
    /\ sortedGroup' = << >>
    /\ collectionFiles' = << >>
    /\ i' = 0
    /\ episodes' = << >>
    /\ sameSizeEpisodes' = << >>
    /\ hasFileOverlaps' = FALSE
    /\ replies' = EmptyMap
    /\ err' = Nil
    /\ episodeFiles' = << >>
    /\ isActualEpisode' = FALSE
    /\ overlappingFiles' = 0

mainVars == << prompted, answer >>
pauseVars == << pausePending, torrentIDs, retry, successCount, failedCount, stopRequests,
               stopOutcomes >>
groupVars == << name, sortedGroup, collectionFiles, i, episodes, sameSizeEpisodes,
                hasFileOverlaps, replies >>
overlapVars == << err, episodeFiles, isActualEpisode, overlappingFiles >>
resultVars == << result, onlySameSizeResult >>

\* findCollectionsAndEpisodes is called: the torrents are grouped by name
GroupTorrents ==
    /\ pc = "find"
    /\ nameGroups' = GroupByName(torrents)
    /\ pending' = DOMAIN GroupByName(torrents)
    /\ pc' = "groups"
    /\ UNCHANGED << torrents, groupVars, overlapVars, resultVars, fetchLog, fetchErrors, classOf,
                    filed, mainVars, pauseVars >>

\* a group of one torrent is skipped
SkipSingleton(n) ==
    /\ pc = "groups"
    /\ n \in pending
    /\ ~ (Len(nameGroups[n]) > 1)
    /\ pending' = pending \ { n }
    /\ classOf' = classOf @@ (n :> "Singleton")
    /\ UNCHANGED << torrents, pc, nameGroups, groupVars, overlapVars, resultVars,
                    fetchLog, fetchErrors, filed, mainVars, pauseVars >>

\* a group the scan finds all of one size is skipped
SkipSameSize(n) ==
    /\ pc = "groups"
    /\ n \in pending
    /\ Len(nameGroups[n]) > 1
    /\ allSameSizes(nameGroups[n])
    /\ pending' = pending \ { n }
    /\ classOf' = classOf @@ (n :> "AllEqualSize")
    /\ UNCHANGED << torrents, pc, nameGroups, groupVars, overlapVars, resultVars,
                    fetchLog, fetchErrors, filed, mainVars, pauseVars >>

\* a group of varying sizes is sorted and the manifest of its head is fetched;
\* the group is skipped when the fetch fails
SelectCollection(n) ==
    /\ pc = "groups"
    /\ n \in pending
    /\ Len(nameGroups[n]) > 1
    /\ ~ allSameSizes(nameGroups[n])
    /\ pending' = pending \ { n }
    /\ classOf' = classOf @@ (n :> "SizeVaries")
    /\ \E reply \in FetchReplies :
        LET sorted == SortGroup(nameGroups[n])
        IN /\ fetchLog' = Append(fetchLog, sorted[1].ID)
           /\ IF reply.err # Nil
              THEN /\ fetchErrors' = fetchErrors \cup { sorted[1].ID }
                   /\ UNCHANGED << pc, groupVars >>
              ELSE /\ pc' = "episodes"
                   /\ name' = n
                   /\ sortedGroup' = sorted
                   /\ collectionFiles' = reply.files
                   /\ replies' = (sorted[1].ID :> reply.files)
                   /\ i' = 2
                   /\ UNCHANGED fetchErrors
                   /\ UNCHANGED << episodes, sameSizeEpisodes, hasFileOverlaps >>
    /\ UNCHANGED << torrents, nameGroups, overlapVars, resultVars, filed, mainVars,
                    pauseVars >>

\* the episode loop with a failed fetch leaving the loop (break for continue)
ProcessEpisodeBreakOnError ==
    /\ pc = "episodes"
    /\ i <= Len(sortedGroup)
    /\ \E reply \in FetchReplies :
        LET episode == sortedGroup[i]
            check == checkActualEpisodeOverlap(collectionFiles, reply.files)
            sameSize == SameSizeAsCollection(Byte(episode), Byte(sortedGroup[1]))
        IN /\ fetchLog' = Append(fetchLog, episode.ID)
           /\ err' = reply.err
           /\ IF reply.err # Nil
              THEN /\ episodeFiles' = << >>
                   /\ isActualEpisode' = FALSE
                   /\ overlappingFiles' = 0
                   /\ fetchErrors' = fetchErrors \cup { episode.ID }
                   /\ i' = Len(sortedGroup) + 1
                   /\ UNCHANGED << episodes, sameSizeEpisodes, hasFileOverlaps, filed,
                                   replies >>
              ELSE /\ episodeFiles' = reply.files
                   /\ replies' = replies @@ (episode.ID :> reply.files)
                   /\ UNCHANGED fetchErrors
                   /\ i' = i + 1
                   /\ isActualEpisode' = check[1]
                   /\ overlappingFiles' = check[2]
                   /\ hasFileOverlaps' = (hasFileOverlaps \/ check[1])
                   /\ sameSizeEpisodes' =
                        IF check[1] /\ sameSize
                        THEN Append(sameSizeEpisodes, episode) ELSE sameSizeEpisodes
                   /\ episodes' =
                        IF check[1] /\ ~ sameSize
                        THEN Append(episodes, episode) ELSE episodes
                   /\ filed' =
                        IF check[1]
                        THEN filed @@ (episode.ID :>
                                IF sameSize THEN "ambiguous" ELSE "duplicate")
                        ELSE filed
    /\ UNCHANGED << torrents, pc, nameGroups, pending, name, sortedGroup,
                    collectionFiles, resultVars, classOf, mainVars, pauseVars >>

\* one pass of the episode loop: fetch the manifest, check the overlap, file the episode
ProcessEpisode ==
    /\ pc = "episodes"
    /\ i <= Len(sortedGroup)
    /\ \E reply \in FetchReplies :
        LET episode == sortedGroup[i]
            check == checkActualEpisodeOverlap(collectionFiles, reply.files)
            sameSize == SameSizeAsCollection(Byte(episode), Byte(sortedGroup[1]))
        IN /\ fetchLog' = Append(fetchLog, episode.ID)
           /\ err' = reply.err
           /\ IF reply.err # Nil
              THEN /\ episodeFiles' = << >>
                   /\ isActualEpisode' = FALSE
                   /\ overlappingFiles' = 0
                   /\ fetchErrors' = fetchErrors \cup { episode.ID }
                   /\ UNCHANGED << episodes, sameSizeEpisodes, hasFileOverlaps, filed,
                                   replies >>
              ELSE /\ episodeFiles' = reply.files
                   /\ replies' = replies @@ (episode.ID :> reply.files)
                   /\ UNCHANGED fetchErrors
                   /\ isActualEpisode' = check[1]
                   /\ overlappingFiles' = check[2]
                   /\ hasFileOverlaps' = (hasFileOverlaps \/ check[1])
                   /\ sameSizeEpisodes' =
                        IF check[1] /\ sameSize
                        THEN Append(sameSizeEpisodes, episode) ELSE sameSizeEpisodes
                   /\ episodes' =
                        IF check[1] /\ ~ sameSize
                        THEN Append(episodes, episode) ELSE episodes
                   /\ filed' =
                        IF check[1]
                        THEN filed @@ (episode.ID :>
                                IF sameSize THEN "ambiguous" ELSE "duplicate")
                        ELSE filed
    /\ i' = i + 1
    /\ UNCHANGED << torrents, pc, nameGroups, pending, name, sortedGroup,
                    collectionFiles, resultVars, classOf, mainVars, pauseVars >>

\* after the episode loop: the group goes to result, to onlySameSizeResult or nowhere
ResolveGroup ==
    /\ pc = "episodes"
    /\ i > Len(sortedGroup)
    /\ LET verdict == GroupVerdict(episodes, sameSizeEpisodes, hasFileOverlaps)
       IN /\ result' =
                IF verdict = "Actionable"
                THEN result @@ (name :> DuplicateGroup(sortedGroup[1], episodes,
                                                       hasFileOverlaps))
                ELSE result
          /\ onlySameSizeResult' =
                IF verdict = "SameSizeOnly"
                THEN onlySameSizeResult @@
                        (name :> DuplicateGroup(sortedGroup[1], sameSizeEpisodes,
                                                hasFileOverlaps))
                ELSE onlySameSizeResult
    /\ pc' = "groups"
    /\ ResetLocals
    /\ UNCHANGED << torrents, nameGroups, pending, fetchLog, fetchErrors, classOf, filed, mainVars,
                    pauseVars >>

\* every group was visited: findCollectionsAndEpisodes returns to main
FindReturn ==
    /\ pc = "groups"
    /\ pending = {}
    /\ pc' = "main"
    /\ UNCHANGED << torrents, nameGroups, pending, groupVars, overlapVars, resultVars,
                    fetchLog, fetchErrors, classOf, filed, mainVars, pauseVars >>

\* main: nothing to pause, the run ends
NothingToPause ==
    /\ pc = "main"
    /\ Cardinality(DOMAIN result) = 0
    /\ pc' = "done"
    /\ UNCHANGED << torrents, nameGroups, pending, groupVars, overlapVars, resultVars,
                    fetchLog, fetchErrors, classOf, filed, mainVars, pauseVars >>

\* main: the groups are listed and the pause prompt is shown
ShowPrompt ==
    /\ pc = "main"
    /\ Cardinality(DOMAIN result) # 0
    /\ prompted' = TRUE
    /\ pc' = "prompt"
    /\ UNCHANGED << torrents, nameGroups, pending, groupVars, overlapVars, resultVars,
                    fetchLog, fetchErrors, classOf, filed, answer, pauseVars >>

\* main: the operator answers; pauseEpisodes is called only on "y"
Answer(a) ==
    /\ pc = "prompt"
    /\ answer' = a
    /\ IF ~ Confirmed(a)
       THEN /\ pc' = "done"
            /\ UNCHANGED pausePending
       ELSE /\ pc' = "pause"
            /\ pausePending' = DOMAIN result
    /\ UNCHANGED << torrents, nameGroups, pending, groupVars, overlapVars, resultVars,
                    fetchLog, fetchErrors, classOf, filed, prompted, torrentIDs, retry, successCount,
                    failedCount, stopRequests, stopOutcomes >>

\* pauseEpisodes: the ids of one group are sent in one stop request
PauseGroup(n, ok) ==
    /\ pc = "pause"
    /\ n \in pausePending
    /\ pausePending' = pausePending \ { n }
    /\ LET ids == CollectIDs(result[n])
       IN IF Len(ids) > 0
          THEN /\ stopRequests' = Append(stopRequests, ids)
               /\ stopOutcomes' = Append(stopOutcomes, ok)
               /\ IF ok
                  THEN /\ successCount' = successCount + Len(ids)
                       /\ UNCHANGED << pc, torrentIDs, retry, failedCount >>
                  ELSE /\ failedCount' = failedCount + Len(ids)
                       /\ torrentIDs' = ids
                       /\ retry' = 1
                       /\ pc' = "retry"
                       /\ UNCHANGED successCount
          ELSE UNCHANGED << pc, torrentIDs, retry, successCount, failedCount,
                            stopRequests, stopOutcomes >>
    /\ UNCHANGED << torrents, nameGroups, pending, groupVars, overlapVars, resultVars,
                    fetchLog, fetchErrors, classOf, filed, mainVars >>

\* the individual retry with a success not taken back from failedCount
RetryOneNoDecrement(ok) ==
    /\ pc = "retry"
    /\ retry <= Len(torrentIDs)
    /\ stopRequests' = Append(stopRequests, << torrentIDs[retry] >>)
    /\ stopOutcomes' = Append(stopOutcomes, ok)
    /\ IF ok
       THEN /\ successCount' = successCount + 1
            /\ UNCHANGED failedCount
       ELSE UNCHANGED << successCount, failedCount >>
    /\ IF retry = Len(torrentIDs)
       THEN /\ pc' = "pause"
            /\ torrentIDs' = << >>
            /\ retry' = 0
       ELSE /\ retry' = retry + 1
            /\ UNCHANGED << pc, torrentIDs >>
    /\ UNCHANGED << torrents, nameGroups, pending, groupVars, overlapVars, resultVars,
                    fetchLog, fetchErrors, classOf, filed, mainVars, pausePending >>

\* pauseEpisodes: after a failed batch, one id is sent on its own
RetryOne(ok) ==
    /\ pc = "retry"
    /\ retry <= Len(torrentIDs)
    /\ stopRequests' = Append(stopRequests, << torrentIDs[retry] >>)
    /\ stopOutcomes' = Append(stopOutcomes, ok)
    /\ IF ok
       THEN /\ successCount' = successCount + 1
            /\ failedCount' = failedCount - 1
       ELSE UNCHANGED << successCount, failedCount >>
    /\ IF retry = Len(torrentIDs)
       THEN /\ pc' = "pause"
            /\ torrentIDs' = << >>
            /\ retry' = 0
       ELSE /\ retry' = retry + 1
            /\ UNCHANGED << pc, torrentIDs >>
    /\ UNCHANGED << torrents, nameGroups, pending, groupVars, overlapVars, resultVars,
                    fetchLog, fetchErrors, classOf, filed, mainVars, pausePending >>

\* pauseEpisodes returns and main ends
PauseReturn ==
    /\ pc = "pause"
    /\ pausePending = {}
    /\ pc' = "done"
    /\ UNCHANGED << torrents, nameGroups, pending, groupVars, overlapVars, resultVars,
                    fetchLog, fetchErrors, classOf, filed, mainVars, pausePending, torrentIDs, retry,
                    successCount, failedCount, stopRequests, stopOutcomes >>

Next ==
    \/ GroupTorrents
    \/ \E n \in Names : SkipSingleton(n)
    \/ \E n \in Names : SkipSameSize(n)
    \/ \E n \in Names : SelectCollection(n)
    \/ ProcessEpisode
    \/ ResolveGroup
    \/ FindReturn
    \/ NothingToPause
    \/ ShowPrompt
    \/ \E a \in Answers : Answer(a)
    \/ \E n \in Names, ok \in BOOLEAN : PauseGroup(n, ok)
    \/ \E ok \in BOOLEAN : RetryOne(ok)
    \/ PauseReturn

Spec == Init /\ [][Next]_vars

----------------------------------------------------------------------------
(* checkActualEpisodeOverlap on its own, over every pair of manifests *)

InitOverlap ==
    /\ torrents = << >>
    /\ pc = "overlap"
    /\ name = ""
    /\ sortedGroup = << >>
    /\ collectionFiles \in Manifests
    /\ i = 0
    /\ episodes = << >>
    /\ sameSizeEpisodes = << >>
    /\ hasFileOverlaps = FALSE
    /\ replies = EmptyMap
    /\ err = Nil
    /\ episodeFiles \in Manifests
    /\ isActualEpisode = FALSE
    /\ overlappingFiles = 0
    /\ Globals

\* one call of checkActualEpisodeOverlap(collectionFiles, episodeFiles)
CheckOverlap ==
    /\ pc = "overlap"
    /\ isActualEpisode' = checkActualEpisodeOverlap(collectionFiles, episodeFiles)[1]
    /\ overlappingFiles' = checkActualEpisodeOverlap(collectionFiles, episodeFiles)[2]
    /\ pc' = "checked"
    /\ UNCHANGED << torrents, nameGroups, pending, groupVars, err, episodeFiles,
                    resultVars, fetchLog, fetchErrors, classOf, filed, mainVars, pauseVars >>

NextOverlap == CheckOverlap

SpecOverlap == InitOverlap /\ [][NextOverlap]_vars

\* the run and the single calls together
SpecAll == (Init \/ InitOverlap) /\ [][Next \/ NextOverlap]_vars

----------------------------------------------------------------------------
(* what the claims speak about *)

Range(s) == { s[k] : k \in 1..Len(s) }

\* the ids of a list of torrents
IDs(ts) == { ts[k].ID : k \in 1..Len(ts) }

\* every id that was sent in a stop request
StoppedIDs == UNION { Range(stopRequests[k]) : k \in 1..Len(stopRequests) }

\* the ids of the episodes listed in result
ActionableEpisodeIDs == UNION { IDs(result[n].Episodes) : n \in DOMAIN result }

\* the ids of the collection items of the groups returned in either map
CollectionIDs ==
    { result[n].Collection.ID : n \in DOMAIN result }
        \cup { onlySameSizeResult[n].Collection.ID : n \in DOMAIN onlySameSizeResult }

\* the ids filed as same-size, whatever became of their group
AmbiguousIDs == { id \in DOMAIN filed : filed[id] = "ambiguous" }

\* the ids filed as duplicate
DuplicateIDs == { id \in DOMAIN filed : filed[id] = "duplicate" }

\* the ids of the members of the name group n
MemberIDs(n) == IDs(nameGroups[n])

\* every member has a size and any two sizes are within the tolerance
PairwiseSizeEqual(group) ==
    \A a, b \in 1..Len(group) :
        /\ group[a].SizeWhenDone # Nil
        /\ group[b].SizeWhenDone # Nil
        /\ abs(group[a].SizeWhenDone[1] - group[b].SizeWhenDone[1]) <= 1024

AllHaveSize(group) == \A k \in 1..Len(group) : group[k].SizeWhenDone # Nil

\* the groups findCollectionsAndEpisodes is done with
Resolved == { n \in DOMAIN classOf : n # name }

C2_PauseOnlyAfterConfirmation ==
    /\ stopRequests # << >> =>
        /\ pc \in { "pause", "retry", "done" }
        /\ pending = {}
        /\ DOMAIN result # {}
        /\ prompted
        /\ answer \in { << "y" >>, << "Y" >> }
    /\ prompted => (DOMAIN result # {} /\ pc \in { "prompt", "pause", "retry", "done" })
    /\ (pc \in { "main", "done" } /\ DOMAIN result = {}) => ~ prompted
    /\ pc \in { "pause", "retry" } => (prompted /\ answer \in { << "y" >>, << "Y" >> })
    /\ (pc = "done" /\ prompted /\ answer \notin { << "y" >>, << "Y" >> })
            => stopRequests = << >>
    /\ (pc = "done" /\ prompted /\ answer \in { << "y" >>, << "Y" >> })
            => stopRequests # << >>

\* C2 witness: the operator answered Y and the episodes were paused
C2_Witness ==
    /\ pc = "done"
    /\ answer = << "Y" >>
    /\ stopRequests # << >>

\* C3: a name group whose members all have sizes within 1024 bytes of one
\* another has no manifest fetched, is in neither returned map and has no
\* member in a stop request.
C3_EqualSizeGroupNeverActedOn ==
    \A n \in DOMAIN nameGroups :
        PairwiseSizeEqual(nameGroups[n]) =>
            /\ MemberIDs(n) \cap Range(fetchLog) = {}
            /\ n \notin DOMAIN result
            /\ n \notin DOMAIN onlySameSizeResult
            /\ MemberIDs(n) \cap StoppedIDs = {}
            /\ n \in DOMAIN classOf => classOf[n] \in { "Singleton", "AllEqualSize" }

\* C3 witness: a group of two or more members with different sizes, all within
\* the tolerance, was skipped and the run ended
C3_Witness ==
    /\ pc = "done"
    /\ \E n \in DOMAIN classOf :
        /\ classOf[n] = "AllEqualSize"
        /\ PairwiseSizeEqual(nameGroups[n])
        /\ \E a, b \in 1..Len(nameGroups[n]) :
              nameGroups[n][a].SizeWhenDone # nameGroups[n][b].SizeWhenDone

\* C4 as stated: a group of two or more members (each with a size) is
\* classified AllEqualSize exactly when every two members are within 1024
\* bytes, and SizeVaries exactly when some pair differs by more.
C4_SizeClassifierPairwise ==
    \A n \in DOMAIN classOf :
        (Len(nameGroups[n]) >= 2 /\ AllHaveSize(nameGroups[n])) =>
            /\ classOf[n] = "AllEqualSize" <=> PairwiseSizeEqual(nameGroups[n])
            /\ classOf[n] = "SizeVaries" <=> ~ PairwiseSizeEqual(nameGroups[n])

\* a stable sort by size descending: each member goes before the later members
\* that are no larger
RECURSIVE StableSortDesc(_)
StableSortDesc(s) ==
    IF s = << >> THEN << >>
    ELSE LET rest == StableSortDesc(Tail(s))
             larger == Cardinality({ k \in 1..Len(rest) :
                                        Byte(rest[k]) > Byte(Head(s)) })
         IN SubSeq(rest, 1, larger) \o << Head(s) >> \o SubSeq(rest, larger + 1, Len(rest))

\* t is a subsequence of s
RECURSIVE IsSubSeq(_, _)
IsSubSeq(t, s) ==
    IF t = << >> THEN TRUE
    ELSE IF s = << >> THEN FALSE
    ELSE IF Head(t) = Head(s) THEN IsSubSeq(Tail(t), Tail(s))
    ELSE IsSubSeq(t, Tail(s))

\* the ids of a list of torrents, in order
IDSeq(ts) == [k \in 1..Len(ts) |-> ts[k].ID]

\* the last n entries of s
LastN(s, n) == SubSeq(s, Len(s) - n + 1, Len(s))

\* C5 as stated: the list the Collection Selector produces for a group whose
\* members all have a size is the stable sort of the group by size descending.
C5_SortIsStable ==
    (pc = "episodes" /\ AllHaveSize(nameGroups[name]))
        => sortedGroup = StableSortDesc(nameGroups[name])

\* C5 amended: the list is a permutation of the group; when every member has a
\* size it is in descending size order and its head is the first member of
\* maximal size (equal-size members behind the head may come in any order); the
\* collection and then the candidate episodes are fetched in list order and the
\* episodes are filed and returned in list order.
C5_SortedDescendingHeadMaximal ==
    /\ pc = "episodes" =>
        /\ Len(sortedGroup) = Len(nameGroups[name])
        /\ IDs(sortedGroup) = MemberIDs(name)
        /\ Range(sortedGroup) = Range(nameGroups[name])
        /\ AllHaveSize(nameGroups[name]) =>
            /\ \A k \in 1..(Len(sortedGroup) - 1) :
                  sortedGroup[k].SizeWhenDone[1] >= sortedGroup[k + 1].SizeWhenDone[1]
            /\ sortedGroup[1] = StableSortDesc(nameGroups[name])[1]
            /\ \A k \in 1..Len(nameGroups[name]) :
                  sortedGroup[1].SizeWhenDone[1] >= nameGroups[name][k].SizeWhenDone[1]
        /\ LastN(fetchLog, i - 1) = IDSeq(SubSeq(sortedGroup, 1, i - 1))
        /\ IsSubSeq(episodes, Tail(sortedGroup))
        /\ IsSubSeq(sameSizeEpisodes, Tail(sortedGroup))
    /\ \A n \in DOMAIN result :
        /\ IsSubSeq(result[n].Episodes, Tail(SortGroup(nameGroups[n])))
        /\ result[n].Collection = SortGroup(nameGroups[n])[1]
        /\ AllHaveSize(nameGroups[n]) =>
                result[n].Collection = StableSortDesc(nameGroups[n])[1]
    /\ \A n \in DOMAIN onlySameSizeResult :
        /\ IsSubSeq(onlySameSizeResult[n].Episodes, Tail(SortGroup(nameGroups[n])))
        /\ onlySameSizeResult[n].Collection = SortGroup(nameGroups[n])[1]

\* C5 witness: every candidate of a group with sizes was evaluated, two of
\* them were filed, and the list is not the stable sort of the group
C5_Witness ==
    /\ pc = "episodes"
    /\ i > Len(sortedGroup)
    /\ AllHaveSize(nameGroups[name])
    /\ sortedGroup # StableSortDesc(nameGroups[name])
    /\ Len(episodes) = 2

\* C6: a true-overlap episode is filed as duplicate only if its size differs
\* from the collection's by more than 1024 bytes and as same-size otherwise;
\* every episode of a group in result differs from its collection by more than
\* 1024 bytes, and a group in onlySameSizeResult has no duplicate episode.
C6_DuplicateOnlyIfSizeDiffers ==
    /\ \A k \in 1..Len(episodes) :
          abs(Byte(episodes[k]) - Byte(sortedGroup[1])) > 1024
    /\ \A k \in 1..Len(sameSizeEpisodes) :
          abs(Byte(sameSizeEpisodes[k]) - Byte(sortedGroup[1])) <= 1024
    /\ (pc = "episodes" /\ i > 2 /\ err = Nil /\ isActualEpisode) =>
          /\ sortedGroup[i - 1].ID \in DOMAIN filed
          /\ filed[sortedGroup[i - 1].ID] = "duplicate"
                <=> abs(Byte(sortedGroup[i - 1]) - Byte(sortedGroup[1])) > 1024
          /\ filed[sortedGroup[i - 1].ID] = "duplicate"
                <=> (Len(episodes) > 0
                        /\ sortedGroup[i - 1] = episodes[Len(episodes)])
          /\ filed[sortedGroup[i - 1].ID] = "ambiguous"
                <=> (Len(sameSizeEpisodes) > 0
                        /\ sortedGroup[i - 1] = sameSizeEpisodes[Len(sameSizeEpisodes)])
    /\ \A n \in DOMAIN result :
          \A k \in 1..Len(result[n].Episodes) :
              abs(Byte(result[n].Episodes[k]) - Byte(result[n].Collection)) > 1024
    /\ \A n \in DOMAIN onlySameSizeResult :
          /\ MemberIDs(n) \cap DuplicateIDs = {}
          /\ \A k \in 1..Len(onlySameSizeResult[n].Episodes) :
                abs(Byte(onlySameSizeResult[n].Episodes[k])
                        - Byte(onlySameSizeResult[n].Collection)) <= 1024

\* C6 witness: a group whose only true-overlap episode is exactly 1024 bytes
\* smaller than its collection ended in onlySameSizeResult
C6_Witness ==
    /\ pc = "done"
    /\ \E n \in DOMAIN onlySameSizeResult :
          \E k \in 1..Len(onlySameSizeResult[n].Episodes) :
              Byte(onlySameSizeResult[n].Collection)
                  - Byte(onlySameSizeResult[n].Episodes[k]) = 1024

\* C7: a resolved group is in result exactly when it has a duplicate episode
\* (same-size episodes or not), in onlySameSizeResult exactly when it has no
\* duplicate but a same-size episode, in neither when no episode was a true
\* overlap; no name is in both maps.
C7_VerdictAssignment ==
    /\ \A n \in Resolved :
          /\ n \in DOMAIN result <=> MemberIDs(n) \cap DuplicateIDs # {}
          /\ n \in DOMAIN onlySameSizeResult
                <=> (MemberIDs(n) \cap DuplicateIDs = {}
                        /\ MemberIDs(n) \cap AmbiguousIDs # {})
          /\ (MemberIDs(n) \cap DOMAIN filed = {})
                => (n \notin DOMAIN result /\ n \notin DOMAIN onlySameSizeResult)
          /\ n \in DOMAIN result =>
                IDs(result[n].Episodes) = MemberIDs(n) \cap DuplicateIDs
          /\ n \in DOMAIN onlySameSizeResult =>
                IDs(onlySameSizeResult[n].Episodes) = MemberIDs(n) \cap AmbiguousIDs
    /\ DOMAIN result \cap DOMAIN onlySameSizeResult = {}
    /\ (DOMAIN result \cup DOMAIN onlySameSizeResult) \subseteq Resolved

\* C7 witness: a group with one duplicate and one same-size episode was
\* returned in result
C7_Witness ==
    /\ pc = "main"
    /\ \E n \in DOMAIN result :
          /\ MemberIDs(n) \cap AmbiguousIDs # {}
          /\ MemberIDs(n) \cap DuplicateIDs # {}

\* a call of checkActualEpisodeOverlap(collectionFiles, episodeFiles) has just
\* returned isActualEpisode and overlappingFiles
Evaluated == pc = "checked" \/ (pc = "episodes" /\ i > 2 /\ err = Nil)

\* the episode markers found in the paths of a manifest
MarkersOf(files) ==
    { m \in { extractEpisodeMarker(files[k]) : k \in 1..Len(files) } : m # << >> }

\* both manifests yield a marker and they share none
DisjointMarkers == 
    /\ MarkersOf(collectionFiles) # {}
    /\ MarkersOf(episodeFiles) # {}
    /\ MarkersOf(collectionFiles) \cap MarkersOf(episodeFiles) = {}

\* the basenames of a manifest
Basenames(files) == { getFileName(files[k]) : k \in 1..Len(files) }

\* the episode files whose basename equals a collection basename or is contained in one
ContainedEpisodeFiles ==
    { k \in 1..Len(episodeFiles) :
        \E b \in Basenames(collectionFiles) :
            \/ getFileName(episodeFiles[k]) = b
            \/ Contains(b, getFileName(episodeFiles[k])) }

\* the episode files whose basename equals a collection basename, is contained
\* in one or contains one
RelatedEpisodeFiles ==
    { k \in 1..Len(episodeFiles) :
        \E b \in Basenames(collectionFiles) :
            \/ getFileName(episodeFiles[k]) = b
            \/ Contains(b, getFileName(episodeFiles[k]))
            \/ Contains(getFileName(episodeFiles[k]), b) }

\* C8: when the collection's files and the episode's files each yield a marker
\* and the marker sets are disjoint, isActualEpisode is false however many
\* basenames match, and the episode is filed neither as duplicate nor as same-size.
C8_MarkerConflictPrecedence ==
    (Evaluated /\ DisjointMarkers) =>
        /\ isActualEpisode = FALSE
        /\ pc = "episodes" => sortedGroup[i - 1].ID \notin DOMAIN filed

\* C8 witness: the markers are disjoint although every episode basename is
\* related to a collection basename
C8_Witness ==
    /\ Evaluated
    /\ DisjointMarkers
    /\ Len(episodeFiles) > 0
    /\ Len(collectionFiles) >= Len(episodeFiles)
    /\ overlappingFiles = Len(episodeFiles)

\* C8 witness in a run: the episode loop met a marker conflict with a matching basename
C8_WitnessRun ==
    /\ pc = "episodes"
    /\ Evaluated
    /\ DisjointMarkers
    /\ overlappingFiles > 0

\* C9 as stated: without a marker conflict the match count is the number of
\* episode files whose basename equals a collection basename or is in a
\* containment relation with one in either direction.
C9_MatchCountEitherDirection ==
    (Evaluated /\ ~ DisjointMarkers)
        => overlappingFiles = Cardinality(RelatedEpisodeFiles)

\* C9 amended: without a marker conflict, and with a collection manifest of at
\* least as many files as the episode's, the match count is the number of
\* episode files whose basename equals a collection basename or is contained in
\* one (an episode basename that contains a collection basename does not
\* count); each episode file is counted at most once.
C9_MatchCountCollectionContains ==
    /\ (Evaluated /\ ~ DisjointMarkers /\ Len(collectionFiles) >= Len(episodeFiles))
        => overlappingFiles = Cardinality(ContainedEpisodeFiles)
    /\ Evaluated => overlappingFiles <= Len(episodeFiles)

\* C9 witness: an episode basename contains a collection basename and is not counted
C9_Witness ==
    /\ Evaluated
    /\ ~ DisjointMarkers
    /\ Len(collectionFiles) >= Len(episodeFiles)
    /\ RelatedEpisodeFiles # ContainedEpisodeFiles
    /\ overlappingFiles = 1

C10_WitnessBelow ==
    /\ Evaluated
    /\ ~ DisjointMarkers
    /\ Len(collectionFiles) >= 2
    /\ Len(episodeFiles) = 2
    /\ overlappingFiles = 0
    /\ ~ isActualEpisode

\* what the two returned maps hold for the name n: the map and the entry
OutcomeIn(res, only, n) ==
    IF n \in DOMAIN res THEN << "result", res[n] >>
    ELSE IF n \in DOMAIN only THEN << "onlySameSizeResult", only[n] >>
    ELSE << "none", << >> >>

\* the outcome of a group computed in one go from the manifests in files
\* (id -> manifest): a member without a manifest is no true overlap, a
\* collection without a manifest gives no outcome
GroupOutcome(group, files) ==
    IF Len(group) <= 1 \/ allSameSizes(group) THEN << "none", << >> >>
    ELSE LET sorted == SortGroup(group)
             c == sorted[1]
             Overlaps(t) ==
                /\ t.ID \in DOMAIN files
                /\ checkActualEpisodeOverlap(files[c.ID], files[t.ID])[1]
             Near(t) == abs(Byte(t) - Byte(c)) <= 1024
             eps == SelectSeq(Tail(sorted), LAMBDA t : Overlaps(t) /\ ~ Near(t))
             same == SelectSeq(Tail(sorted), LAMBDA t : Overlaps(t) /\ Near(t))
         IN IF c.ID \notin DOMAIN files THEN << "none", << >> >>
            ELSE IF eps # << >> THEN << "result", DuplicateGroup(c, eps, TRUE) >>
            ELSE IF same # << >>
                 THEN << "onlySameSizeResult", DuplicateGroup(c, same, TRUE) >>
            ELSE << "none", << >> >>

\* the group being processed without the members whose manifest fetch failed
WithoutFailed == SelectSeq(nameGroups[name], LAMBDA t : t.ID \notin fetchErrors)

\* the step that ends the processing of a group with a fetched collection
ResolveStep == pc = "episodes" /\ pc' = "groups"

\* the state part of C11: a failed collection fetch skips the group before any
\* episode fetch; after a successful one every member is fetched whatever
\* fails, and a member whose fetch failed is filed nowhere; all groups are visited
C11_FetchFailureState ==
    /\ fetchErrors \subseteq Range(fetchLog)
    /\ \A n \in Resolved :
        classOf[n] = "SizeVaries" =>
            LET c == SortGroup(nameGroups[n])[1]
            IN IF c.ID \in fetchErrors
               THEN /\ n \notin DOMAIN result
                    /\ n \notin DOMAIN onlySameSizeResult
                    /\ MemberIDs(n) \cap Range(fetchLog) = { c.ID }
                    /\ MemberIDs(n) \cap DOMAIN filed = {}
               ELSE /\ MemberIDs(n) \subseteq Range(fetchLog)
                    /\ MemberIDs(n) \cap fetchErrors \cap DOMAIN filed = {}
                    /\ n \in DOMAIN result =>
                          IDs(result[n].Episodes) \cap fetchErrors = {}
                    /\ n \in DOMAIN onlySameSizeResult =>
                          IDs(onlySameSizeResult[n].Episodes) \cap fetchErrors = {}
    /\ pc = "episodes" =>
        /\ sortedGroup[1].ID \notin fetchErrors
        /\ DOMAIN replies = IDs(SubSeq(sortedGroup, 1, i - 1)) \ fetchErrors
        /\ IDs(episodes) \cup IDs(sameSizeEpisodes) \subseteq DOMAIN replies
    /\ pc \in { "main", "prompt", "pause", "retry", "done" } =>
        /\ DOMAIN classOf = DOMAIN nameGroups
        /\ Resolved = DOMAIN nameGroups

\* C11 as stated: the state part, and the group's result after failed episode
\* fetches is the result of the group without the failed episodes.
C11_SameAsWithoutFailedEpisode ==
    /\ []C11_FetchFailureState
    /\ [][ResolveStep =>
            OutcomeIn(result', onlySameSizeResult', name)
                = GroupOutcome(WithoutFailed, replies)]_vars

\* C11 amended: the state part, and the group's result after failed episode
\* fetches is the result of the whole group with each failed episode judged no
\* true overlap: that episode still counts in the size classification and the
\* sort of its group, and only its own filing is left out.
C11_FailedEpisodeCountsAsNoOverlap ==
    /\ []C11_FetchFailureState
    /\ [][ResolveStep =>
            OutcomeIn(result', onlySameSizeResult', name)
                = GroupOutcome(nameGroups[name], replies)]_vars

\* C11 witness: a group was returned although the fetch of one of its episodes failed
C11_Witness ==
    \E n \in DOMAIN result : MemberIDs(n) \cap fetchErrors # {}

\* C11 witness: a group was skipped because the fetch of its collection failed
C11_WitnessCollection ==
    \E n \in Resolved :
        /\ classOf[n] = "SizeVaries"
        /\ SortGroup(nameGroups[n])[1].ID \in fetchErrors

\* the items that have both a name and a size
Complete(t) == t.Name # Nil /\ t.SizeWhenDone # Nil

\* the members of a group that have a size
Sized(group) == SelectSeq(group, LAMBDA t : t.SizeWhenDone # Nil)

\* the items returned in either map, as collection or as episode
ReturnedIDs ==
    CollectionIDs
        \cup UNION { IDs(result[n].Episodes) : n \in DOMAIN result }
        \cup UNION { IDs(onlySameSizeResult[n].Episodes) : n \in DOMAIN onlySameSizeResult }

\* C12 as stated: an item with a missing name or a missing size is a member of
\* no name group, has no influence on the size classification or on the choice
\* of collection of a group, and is never returned or filed; every item with
\* both a name and a size is a member of exactly the name group of its name.
C12_IncompleteItemsExcluded ==
    pc # "find" =>
        /\ \A n \in DOMAIN nameGroups : \A k \in 1..Len(nameGroups[n]) :
                Complete(nameGroups[n][k])
        /\ \A k \in 1..Len(torrents) :
                Complete(torrents[k]) =>
                    \A n \in Names :
                        (n \in DOMAIN nameGroups /\ torrents[k].ID \in MemberIDs(n))
                            <=> torrents[k].Name = << n >>
        /\ \A n \in Resolved :
                /\ classOf[n] = "SizeVaries" =>
                        /\ Len(Sized(nameGroups[n])) > 1
                        /\ ~ allSameSizes(Sized(nameGroups[n]))
                /\ classOf[n] = "AllEqualSize" =>
                        \/ Len(Sized(nameGroups[n])) <= 1
                        \/ allSameSizes(Sized(nameGroups[n]))
        /\ \A n \in DOMAIN result :
                result[n].Collection = SortGroup(Sized(nameGroups[n]))[1]
        /\ \A k \in 1..Len(torrents) :
                ~ Complete(torrents[k]) =>
                    torrents[k].ID \notin ReturnedIDs \cup DOMAIN filed

\* a size-less item is the collection of a group whose sized members all have
\* one size, and a member of that group has been stopped
C12_SizelessCollectionStops ==
    \E n \in DOMAIN result :
        /\ result[n].Collection.SizeWhenDone = Nil
        /\ allSameSizes(Sized(nameGroups[n]))
        /\ StoppedIDs \cap MemberIDs(n) # {}

\* the positions of the stop requests that name the id
RequestsOf(id) == { k \in 1..Len(stopRequests) : id \in Range(stopRequests[k]) }

\* the smallest and the largest member of a nonempty set of positions
First(S) == CHOOSE k \in S : \A j \in S : k <= j
Last(S) == CHOOSE k \in S : \A j \in S : j <= k

\* pauseEpisodes was called and has returned
Paused == pc = "done" /\ prompted /\ Confirmed(answer)

\* one group's requests: the batch first; nothing more after a successful
\* batch, after a failed one a single request per id, in the order of the ids
GroupRequests(ids) ==
    LET b == First(RequestsOf(ids[1]))
    IN /\ stopRequests[b] = ids
       /\ \A m \in 1..Len(ids) :
            IF stopOutcomes[b]
            THEN RequestsOf(ids[m]) = { b }
            ELSE /\ RequestsOf(ids[m]) = { b, b + m }
                 /\ stopRequests[b + m] = << ids[m] >>

\* C13: the two counters are never negative; when pauseEpisodes has returned
\* their sum is the number of episode ids of all groups, every group got its
\* batch request and, only after a failed batch, one retry per id, and each id
\* is counted once, as succeeded or failed by the outcome of its last request.
C13_PauseAccounting ==
    /\ successCount >= 0
    /\ failedCount >= 0
    /\ Len(stopOutcomes) = Len(stopRequests)
    /\ Paused =>
        /\ successCount + failedCount = Cardinality(ActionableEpisodeIDs)
        /\ StoppedIDs = ActionableEpisodeIDs
        /\ \A n \in DOMAIN result : GroupRequests(CollectIDs(result[n]))
        /\ successCount = Cardinality({ id \in ActionableEpisodeIDs :
                                            stopOutcomes[Last(RequestsOf(id))] })
        /\ failedCount = Cardinality({ id \in ActionableEpisodeIDs :
                                            ~ stopOutcomes[Last(RequestsOf(id))] })

\* C13 witness: pauseEpisodes has returned after a failed batch of two ids, the
\* retry of the first id succeeded and the retry of the second failed
C13_Witness ==
    /\ Paused
    /\ \E k \in 1..Len(stopRequests) :
        /\ Len(stopRequests[k]) = 2
        /\ ~ stopOutcomes[k]
        /\ k + 2 <= Len(stopRequests)
        /\ stopOutcomes[k + 1]
        /\ ~ stopOutcomes[k + 2]

====
